---- MODULE Spec2Model ----
(***************************************************************************)
(* A model of app.py, the Streamlit dashboard comparing the CMS synthetic  *)
(* claims dataset with the Medicare LDS sample.                            *)
(*                                                                         *)
(* Streamlit runs the script top to bottom on every interaction.  The      *)
(* script has four data sections, each reading one CSV through the         *)
(* memoized load_data: Claim Type (table and chart), Service Category      *)
(* (table), Encounters (table), and the encounters time series (chart and  *)
(* a second table).  An uncaught exception ends the run where it is        *)
(* raised; what was rendered before stays on the page.                     *)
(*                                                                         *)
(* Numbers: the counts are naturals; pandas computes the percentages in    *)
(* float64, modelled here as exact fractions num/den in lowest terms, with *)
(* den = 0 for the two IEEE results of a division by zero: 0/0 is NaN      *)
(* (num = 0) and x/0 for x > 0 is +inf (num = 1).                          *)
(***************************************************************************)
EXTENDS Integers, Sequences, FiniteSets, TLC

(***************************************************************************)
(* Bounds of the model.                                                    *)
(***************************************************************************)
\* Rows of a CSV file drawn freely.
MaxRows == 2
\* Rows added to a file that has the usual rows.
MaxExtra == 1
\* claim_count of a row ranges over 0 .. MaxCount.
MaxCount == 1
\* Script runs of one session (the first load plus the reruns).
MaxRuns == 2
\* In a pair of files: the rows of the data source the two files share, and
\* the rows of other data sources each file adds.
PairOwn == 1
PairOther == 1

(***************************************************************************)
(* Labels.  Each column has the labels the script names and one label it   *)
(* does not name.                                                          *)
(***************************************************************************)
DataSources == {"cms_synthetic", "medicare_lds", "other_source"}
ClaimTypes == {"professional", "institutional", "undetermined"}
ServiceCategories == {"inpatient", "outpatient", "hospice"}
EncounterGroups == {"inpatient", "outpatient"}
EncounterTypes == {"acute inpatient", "emergency department"}
YearMonths == {202001, 202002}
Counts == 0 .. MaxCount

\* The index label pandas gives a value that Index.map does not find.
NaNLabel == "NaN"

(***************************************************************************)
(* Fractions (float64 results).                                            *)
(***************************************************************************)
RECURSIVE Gcd(_, _)
Gcd(a, b) == IF b = 0 THEN a ELSE Gcd(b, a % b)

Frac(n, d) ==
    IF d = 0 THEN [num |-> IF n = 0 THEN 0 ELSE 1, den |-> 0]
    ELSE LET g == Gcd(n, d) IN [num |-> n \div g, den |-> d \div g]

NaN == [num |-> 0, den |-> 0]
Inf == [num |-> 1, den |-> 0]
Zero == Frac(0, 1)
Hundred == Frac(100, 1)
IsNaN(x) == x = NaN
IsFinite(x) == x.den # 0

\* float addition: NaN absorbs, then inf
FracAdd(x, y) ==
    IF IsNaN(x) \/ IsNaN(y) THEN NaN
    ELSE IF x.den = 0 \/ y.den = 0 THEN Inf
    ELSE Frac(x.num * y.den + y.num * x.den, x.den * y.den)

\* x / y * 100 as pandas computes it for non-negative operands
PercentOf(x, y) ==
    IF IsNaN(x) \/ IsNaN(y) THEN NaN
    ELSE IF y.den = 0 THEN (IF x.den = 0 THEN NaN ELSE Zero)
    ELSE IF x.den = 0 THEN Inf
    ELSE IF y.num = 0 THEN (IF x.num = 0 THEN NaN ELSE Inf)
    ELSE Frac(x.num * y.den * 100, x.den * y.num)

\* The elements of a finite set in some fixed order.
RECURSIVE SetToSeq(_)
SetToSeq(S) ==
    IF S = {} THEN <<>>
    ELSE LET x == CHOOSE y \in S : TRUE IN <<x>> \o SetToSeq(S \ {x})

\* Series.sum(): NaN entries are skipped (skipna=True); an empty sum is 0.
RECURSIVE SumSkipNa(_)
SumSkipNa(xs) ==
    IF xs = <<>> THEN Zero
    ELSE IF IsNaN(Head(xs)) THEN SumSkipNa(Tail(xs))
    ELSE FracAdd(Head(xs), SumSkipNa(Tail(xs)))

(***************************************************************************)
(* Files and data frames.                                                  *)
(*                                                                         *)
(* A frame has its column names as the header spells them, the dtype of    *)
(* its year_month column, and its rows.  year_month holds the compact code *)
(* (202001) while the dtype is int64, and the month's number (12 * year +  *)
(* month - 1) once it is datetime64.  A CSV file is a frame, or            *)
(* Unreadable when pd.read_csv raises on it (missing, malformed).          *)
(***************************************************************************)
ClaimTypeFile == "data/claim_count_by_type.csv"
ServiceCategoryFile == "data/claim_count_by_service_category_1.csv"
EncountersFile == "data/encounters.csv"
FileNames == {ClaimTypeFile, ServiceCategoryFile, EncountersFile}

Unreadable == [unreadable |-> TRUE]
NotCached == [cached |-> FALSE]

\* pd.DataFrame(): no columns, no rows
EmptyFrame == [columns |-> {}, ym_dtype |-> "int64", rows |-> <<>>]

\* str.lower() on the column names the files use
StrLower(name) ==
    CASE name = "DATA_SOURCE" -> "data_source"
      [] name = "CLAIM_TYPE" -> "claim_type"
      [] name = "SERVICE_CATEGORY_1" -> "service_category_1"
      [] name = "ENCOUNTER_GROUP" -> "encounter_group"
      [] name = "ENCOUNTER_TYPE" -> "encounter_type"
      [] name = "YEAR_MONTH" -> "year_month"
      [] name = "CLAIM_COUNT" -> "claim_count"
      [] OTHER -> name

\* df.columns = df.columns.str.lower()
LowerColumns(df) == [df EXCEPT !.columns = {StrLower(c) : c \in df.columns}]

\* pd.to_datetime(code, format="%Y%m") of a six-digit year-month code
ToDatetime(code) == 12 * (code \div 100) + (code % 100) - 1

\* df["year_month"] = pd.to_datetime(df["year_month"], format="%Y%m");
\* a column that is datetime64 already is returned as it is
ConvertYearMonth(df) ==
    IF df.ym_dtype = "datetime64" THEN df
    ELSE [df EXCEPT !.ym_dtype = "datetime64",
                    !.rows = [i \in DOMAIN df.rows |->
                        [df.rows[i] EXCEPT !.year_month = ToDatetime(@)]]]

\* The fixed renaming of the data sources
SourceNames(s) ==
    CASE s = "cms_synthetic" -> "Synthetic"
      [] s = "medicare_lds" -> "LDS"
      [] OTHER -> s
RecognizedSources == {"cms_synthetic", "medicare_lds"}

\* Series.replace({...}): a value that is no key of the mapping is kept
ReplaceSource(s) == SourceNames(s)

\* Index.map({...}): a value that is no key of the mapping becomes NaN
MapSource(s) == IF s \in RecognizedSources THEN SourceNames(s) ELSE NaNLabel

\* DataFrame.rename(columns={...}): a column that is no key is kept
RenameClaimType(c) ==
    CASE c = "professional" -> "Professional"
      [] c = "institutional" -> "Institutional"
      [] c = "total" -> "Total"
      [] OTHER -> c

RenameServiceCategory(c) ==
    CASE c = "inpatient" -> "Inpatient"
      [] c = "outpatient" -> "Outpatient"
      [] c = "office-based" -> "Office-based"
      [] c = "ancillary" -> "Ancillary"
      [] c = "other" -> "Other"
      [] c = "total" -> "Total"
      [] OTHER -> c

(***************************************************************************)
(* groupby / unstack / pivot_table.                                        *)
(***************************************************************************)
RECURSIVE SumCount(_)
SumCount(rows) ==
    IF rows = <<>> THEN 0 ELSE Head(rows).claim_count + SumCount(Tail(rows))

\* df.groupby(keys)["claim_count"].sum(): one entry per key tuple observed
GroupBySum(rows, by) ==
    LET Key(r) == [i \in DOMAIN by |-> r[by[i]]]
        keys == {Key(rows[i]) : i \in DOMAIN rows}
    IN [k \in keys |-> SumCount(SelectSeq(rows, LAMBDA r : Key(r) = k))]

\* unstack() without fill_value: the absent pairs are NaN
UnstackNoFill(grouped) ==
    LET idx == {k[1] : k \in DOMAIN grouped}
        cols == {k[2] : k \in DOMAIN grouped}
    IN [computed |-> TRUE, sources |-> idx, categories |-> cols,
        cell |-> [ic \in idx \X cols |->
                    IF ic \in DOMAIN grouped THEN Frac(grouped[ic], 1) ELSE NaN]]

\* Series.unstack(fill_value=0) of a series keyed by <<data_source, category>>:
\* the data sources become the index, the categories the columns
Unstack(grouped) ==
    LET idx == {k[1] : k \in DOMAIN grouped}
        cols == {k[2] : k \in DOMAIN grouped}
    IN [computed |-> TRUE, sources |-> idx, categories |-> cols,
        cell |-> [ic \in idx \X cols |->
                    IF ic \in DOMAIN grouped THEN Frac(grouped[ic], 1) ELSE Zero]]

\* Alphabetical order of the labels, as pandas sorts group keys.
LabelOrder ==
    << "acute inpatient", "cms_synthetic", "emergency department", "hospice",
       "inpatient", "institutional", "medicare_lds", "other_source",
       "outpatient", "professional", "undetermined" >>
Rank(s) == CHOOSE i \in DOMAIN LabelOrder : LabelOrder[i] = s

\* Order of the keys <<data_source, encounter_group, encounter_type, period>>
KeyLess(a, b) ==
    \/ Rank(a[1]) < Rank(b[1])
    \/ a[1] = b[1] /\ Rank(a[2]) < Rank(b[2])
    \/ a[1] = b[1] /\ a[2] = b[2] /\ Rank(a[3]) < Rank(b[3])
    \/ a[1] = b[1] /\ a[2] = b[2] /\ a[3] = b[3] /\ a[4] < b[4]

RECURSIVE SortKeys(_)
SortKeys(S) ==
    IF S = {} THEN <<>>
    ELSE LET m == CHOOSE x \in S : \A y \in S \ {x} : KeyLess(x, y)
         IN <<m>> \o SortKeys(S \ {m})

\* df_3.groupby([data_source, encounter_group, encounter_type])["claim_count"]
\*     .sum().reset_index(): one row per key, in key order.  The summary has no
\* year_month column; the model keeps the field at 0.
EncounterSummary(rows) ==
    LET g == GroupBySum(rows,
                 <<"data_source", "encounter_group", "encounter_type">>)
        ks == SortKeys(DOMAIN g)
    IN [i \in DOMAIN ks |->
          [data_source |-> ks[i][1], encounter_group |-> ks[i][2],
           encounter_type |-> ks[i][3], year_month |-> 0,
           claim_count |-> g[ks[i]]]]

\* The same with year_month as the fourth key.
EncounterMonthlySummary(rows) ==
    LET g == GroupBySum(rows,
                 <<"data_source", "encounter_group", "encounter_type",
                   "year_month">>)
        ks == SortKeys(DOMAIN g)
    IN [i \in DOMAIN ks |->
          [data_source |-> ks[i][1], encounter_group |-> ks[i][2],
           encounter_type |-> ks[i][3], year_month |-> ks[i][4],
           claim_count |-> g[ks[i]]]]

\* Series.unique(): the distinct values in order of first appearance
RECURSIVE Unique(_)
Unique(xs) ==
    IF xs = <<>> THEN <<>>
    ELSE LET init == Unique(SubSeq(xs, 1, Len(xs) - 1))
             last == xs[Len(xs)]
         IN IF \E i \in DOMAIN init : init[i] = last THEN init
            ELSE Append(init, last)

Range(xs) == {xs[i] : i \in DOMAIN xs}

\* summary.pivot_table(index=[encounter_group, encounter_type],
\*     columns=data_source, values=claim_count, fill_value=0): aggfunc is left
\* at its default, "mean", taken over the rows of the summary that share
\* (encounter_group, encounter_type, data_source).  Kept by data source: the
\* data sources are the columns, the (group, type) pairs the rows.
PivotTable(summary) ==
    LET cats == {<<summary[i].encounter_group, summary[i].encounter_type>> :
                    i \in DOMAIN summary}
        srcs == {summary[i].data_source : i \in DOMAIN summary}
        At(s, c) == SelectSeq(summary, LAMBDA r :
                        /\ r.data_source = s
                        /\ r.encounter_group = c[1]
                        /\ r.encounter_type = c[2])
    IN [computed |-> TRUE, sources |-> srcs, categories |-> cats,
        cell |-> [sc \in srcs \X cats |->
                    IF At(sc[1], sc[2]) = <<>> THEN Zero
                    ELSE Frac(SumCount(At(sc[1], sc[2])),
                              Len(At(sc[1], sc[2])))]]

NoPivot == [computed |-> FALSE, sources |-> {}, categories |-> {}, cell |-> <<>>]

(***************************************************************************)
(* What a section puts on the page.                                        *)
(*                                                                         *)
(* A table is kept by data source, whichever way the page lays it out:     *)
(* sources are the data sources of the pivot, label[s] is the label the    *)
(* page shows for s, cell[<<s, c>>] is the value shown for s and category  *)
(* c, and total[s] is the value of the Total column (or row) for s.        *)
(* status is "none" before the section runs, "rendered" once st.table was  *)
(* called, and "error" when the section raised before it.                  *)
(***************************************************************************)
NoTable ==
    [status |-> "none", sources |-> {}, label |-> <<>>, categories |-> {},
     cell |-> <<>>, total |-> <<>>]
FailedTable == [NoTable EXCEPT !.status = "error"]

NoChart ==
    [status |-> "none", source_options |-> <<>>, source |-> "",
     type_options |-> <<>>, type |-> "", feed |-> <<>>]
FailedChart == [NoChart EXCEPT !.status = "error"]

\* A widget nobody touched yet returns options[index], index = 0.
Untouched == "(untouched)"
Selected(options, choice) ==
    IF choice \in Range(options) THEN choice ELSE options[1]

(***************************************************************************)
(* Claim Type: lines 59-149.                                               *)
(***************************************************************************)
\* lines 75-89: the Total column, the percentages, the renames
ClaimTypePercent(pivot) ==
    LET total(s) == FracAdd(pivot.cell[<<s, "professional">>],
                            pivot.cell[<<s, "institutional">>])
        renamed == {RenameClaimType(c) : c \in pivot.categories}
        orig(n) == CHOOSE c \in pivot.categories : RenameClaimType(c) = n
    IN [status |-> "rendered",
        sources |-> pivot.sources,
        label |-> [s \in pivot.sources |-> MapSource(s)],
        categories |-> renamed,
        cell |-> [sc \in pivot.sources \X renamed |->
                    PercentOf(pivot.cell[<<sc[1], orig(sc[2])>>], total(sc[1]))],
        total |-> [s \in pivot.sources |-> PercentOf(total(s), total(s))]]

\* lines 112-137: the data source radio and the rows handed to px.bar
ClaimTypeChart(df, choice) ==
    LET options == Unique([i \in DOMAIN df.rows |-> df.rows[i].data_source])
        source == Selected(options, choice)
    IN [status |-> "rendered", source_options |-> options, source |-> source,
        type_options |-> <<>>, type |-> "",
        feed |-> SelectSeq(df.rows, LAMBDA r : r.data_source = source)]

\* The section on the frame load_data returned.  df is the frame as the
\* section leaves it: it changes the frame in place (lines 64, 112, 124).
ClaimTypeSection(loaded, choice) ==
    LET df1 == LowerColumns(loaded)
        pivot == Unstack(GroupBySum(df1.rows,
                     <<"data_source", "claim_type">>))
        df2 == [df1 EXCEPT !.rows = [i \in DOMAIN df1.rows |->
                   [df1.rows[i] EXCEPT !.data_source = ReplaceSource(@)]]]
        df3 == ConvertYearMonth(df2)
    IN IF ~ ({"data_source", "claim_type", "claim_count"} \subseteq df1.columns)
       THEN \* KeyError in groupby, line 67
            [raised |-> TRUE, df |-> df1, pivot |-> NoPivot,
             table |-> FailedTable, chart |-> NoChart]
       ELSE IF ~ ({"professional", "institutional"} \subseteq pivot.categories)
       THEN \* AttributeError, line 75
            [raised |-> TRUE, df |-> df1, pivot |-> pivot,
             table |-> FailedTable, chart |-> NoChart]
       ELSE [raised |-> FALSE, df |-> df3, pivot |-> pivot,
             table |-> ClaimTypePercent(pivot),
             chart |-> ClaimTypeChart(df3, choice)]

(***************************************************************************)
(* Service Category: lines 155-203.                                        *)
(***************************************************************************)
\* The percentages taken of the total of all the data sources together.
ServiceCategoryPercentOfAll(pivot) ==
    LET all == SetToSeq(pivot.sources \X pivot.categories)
        grand == SumSkipNa([i \in DOMAIN all |-> pivot.cell[all[i]]])
        total(s) == SumSkipNa([i \in DOMAIN SetToSeq(pivot.categories) |->
                        pivot.cell[<<s, SetToSeq(pivot.categories)[i]>>]])
        renamed == {RenameServiceCategory(c) : c \in pivot.categories}
        orig(n) == CHOOSE c \in pivot.categories : RenameServiceCategory(c) = n
    IN [status |-> "rendered",
        sources |-> pivot.sources,
        label |-> [s \in pivot.sources |-> MapSource(s)],
        categories |-> renamed,
        cell |-> [sc \in pivot.sources \X renamed |->
                    PercentOf(pivot.cell[<<sc[1], orig(sc[2])>>], grand)],
        total |-> [s \in pivot.sources |-> PercentOf(total(s), grand)]]

\* lines 173-195: the Total column is the sum of all the columns
ServiceCategoryPercent(pivot) ==
    LET total(s) == SumSkipNa([i \in DOMAIN SetToSeq(pivot.categories) |->
                        pivot.cell[<<s, SetToSeq(pivot.categories)[i]>>]])
        renamed == {RenameServiceCategory(c) : c \in pivot.categories}
        orig(n) == CHOOSE c \in pivot.categories : RenameServiceCategory(c) = n
    IN [status |-> "rendered",
        sources |-> pivot.sources,
        label |-> [s \in pivot.sources |-> MapSource(s)],
        categories |-> renamed,
        cell |-> [sc \in pivot.sources \X renamed |->
                    PercentOf(pivot.cell[<<sc[1], orig(sc[2])>>], total(sc[1]))],
        total |-> [s \in pivot.sources |-> PercentOf(total(s), total(s))]]

ServiceCategorySection(loaded) ==
    LET df1 == LowerColumns(loaded)
        pivot == Unstack(GroupBySum(df1.rows,
                     <<"data_source", "service_category_1">>))
    IN IF ~ ({"data_source", "service_category_1", "claim_count"}
                \subseteq df1.columns)
       THEN \* KeyError in groupby, line 167
            [raised |-> TRUE, df |-> df1, pivot |-> NoPivot,
             table |-> FailedTable]
       ELSE [raised |-> FALSE, df |-> df1, pivot |-> pivot,
             table |-> ServiceCategoryPercent(pivot)]

(***************************************************************************)
(* Encounters: lines 210-273, and the time series, lines 277-379.          *)
(***************************************************************************)
\* lines 239-262 (and 345-368): the renames, the percentages of the
\* Synthetic and LDS columns, the Total row.  A column under another name
\* is left as pivot_table made it, and the Total row has no value for it.
EncounterPercent(pivot) ==
    LET cats == SetToSeq(pivot.categories)
        column(s) == [i \in DOMAIN cats |-> pivot.cell[<<s, cats[i]>>]]
        total(s) == SumSkipNa(column(s))
        shown(s, c) == IF s \in RecognizedSources
                       THEN PercentOf(pivot.cell[<<s, c>>], total(s))
                       ELSE pivot.cell[<<s, c>>]
    IN [status |-> "rendered",
        sources |-> pivot.sources,
        label |-> [s \in pivot.sources |-> SourceNames(s)],
        categories |-> pivot.categories,
        cell |-> [sc \in pivot.sources \X pivot.categories |->
                    shown(sc[1], sc[2])],
        total |-> [s \in pivot.sources |->
                    IF s \in RecognizedSources
                    THEN SumSkipNa([i \in DOMAIN cats |-> shown(s, cats[i])])
                    ELSE NaN]]

EncountersSection(loaded) ==
    LET df1 == LowerColumns(loaded)
        pivot == PivotTable(EncounterSummary(df1.rows))
    IN IF ~ ({"data_source", "encounter_group", "encounter_type",
              "claim_count"} \subseteq df1.columns)
       THEN \* KeyError in groupby, line 225
            [raised |-> TRUE, df |-> df1, pivot |-> NoPivot,
             table |-> FailedTable]
       ELSE IF ~ (RecognizedSources \subseteq pivot.sources)
       THEN \* KeyError, line 248 or 249
            [raised |-> TRUE, df |-> df1, pivot |-> pivot,
             table |-> FailedTable]
       ELSE [raised |-> FALSE, df |-> df1, pivot |-> pivot,
             table |-> EncounterPercent(pivot)]

\* lines 289-323: the summary's year_month as dates, the two widgets, the
\* rows handed to px.bar
EncounterChart(summary, source_choice, type_choice) ==
    LET dated == [i \in DOMAIN summary |->
                    [summary[i] EXCEPT !.year_month = ToDatetime(@)]]
        sources == Unique([i \in DOMAIN dated |-> dated[i].data_source])
        types == Unique([i \in DOMAIN dated |-> dated[i].encounter_type])
        source == Selected(sources, source_choice)
        type == Selected(types, type_choice)
    IN [status |-> "rendered", source_options |-> sources, source |-> source,
        type_options |-> types, type |-> type,
        feed |-> SelectSeq(dated, LAMBDA r :
                    r.data_source = source /\ r.encounter_type = type)]

EncountersTimeSeriesSection(loaded, source_choice, type_choice) ==
    LET df1 == LowerColumns(loaded)
        summary == EncounterMonthlySummary(df1.rows)
        pivot == PivotTable(summary)
    IN IF ~ ({"data_source", "encounter_group", "encounter_type",
              "year_month", "claim_count"} \subseteq df1.columns)
       THEN \* KeyError in groupby, line 283
            [raised |-> TRUE, df |-> df1, pivot |-> NoPivot,
             table |-> FailedTable, chart |-> NoChart]
       ELSE IF ~ (RecognizedSources \subseteq pivot.sources)
       THEN \* KeyError, line 354 or 355, after the chart was drawn
            [raised |-> TRUE, df |-> df1, pivot |-> pivot,
             table |-> FailedTable,
             chart |-> EncounterChart(summary, source_choice, type_choice)]
       ELSE [raised |-> FALSE, df |-> df1, pivot |-> pivot,
             table |-> EncounterPercent(pivot),
             chart |-> EncounterChart(summary, source_choice, type_choice)]

(***************************************************************************)
(* The session.                                                            *)
(***************************************************************************)
VARIABLES
    files,      \* the CSV files on disk
    cache,      \* st.cache_data's store for load_data, by file name
    pc,         \* the section the running script is at, "done" or "halted"
    run,        \* the number of the script run
    widget,     \* the widgets' values the session keeps between runs
    out,        \* what the current run has put on the page
    prev,       \* what the run before it had put on the page
    messages,   \* the files the current run showed an st.error for
    pair        \* two input files side by side (SpecPair), else NoPair

vars == <<files, cache, pc, run, widget, out, prev, messages, pair>>

\* The input files the model draws from.
HeaderStyles == {"lower", "UPPER"}
Header(style, names) ==
    IF style = "lower" THEN names
    ELSE {CHOOSE u \in {"DATA_SOURCE", "CLAIM_TYPE", "SERVICE_CATEGORY_1",
                        "ENCOUNTER_GROUP", "ENCOUNTER_TYPE", "YEAR_MONTH",
                        "CLAIM_COUNT"} : StrLower(u) = n : n \in names}

ColumnsOf(f) ==
    CASE f = ClaimTypeFile ->
            {"data_source", "claim_type", "year_month", "claim_count"}
      [] f = ServiceCategoryFile ->
            {"data_source", "service_category_1", "claim_count"}
      [] f = EncountersFile ->
            {"data_source", "encounter_group", "encounter_type", "year_month",
             "claim_count"}

RowsOf(f) ==
    CASE f = ClaimTypeFile ->
            [data_source : DataSources, claim_type : ClaimTypes,
             year_month : YearMonths, claim_count : Counts]
      [] f = ServiceCategoryFile ->
            [data_source : DataSources, service_category_1 : ServiceCategories,
             claim_count : Counts]
      [] f = EncountersFile ->
            [data_source : DataSources, encounter_group : EncounterGroups,
             encounter_type : EncounterTypes, year_month : YearMonths,
             claim_count : Counts]

SeqsUpTo(S, n) == UNION {[1 .. k -> S] : k \in 0 .. n}

CsvFrame(f, style, rows) ==
    [columns |-> Header(style, ColumnsOf(f)), ym_dtype |-> "int64",
     rows |-> rows]

\* A file on which every section renders: both expected data sources, both
\* claim types.
UsualRows(f) ==
    CASE f = ClaimTypeFile ->
            << [data_source |-> "cms_synthetic", claim_type |-> "professional",
                year_month |-> 202001, claim_count |-> 1],
               [data_source |-> "medicare_lds", claim_type |-> "institutional",
                year_month |-> 202001, claim_count |-> 1] >>
      [] f = ServiceCategoryFile ->
            << [data_source |-> "cms_synthetic",
                service_category_1 |-> "inpatient", claim_count |-> 1],
               [data_source |-> "medicare_lds",
                service_category_1 |-> "outpatient", claim_count |-> 1] >>
      [] f = EncountersFile ->
            << [data_source |-> "cms_synthetic", encounter_group |-> "inpatient",
                encounter_type |-> "acute inpatient", year_month |-> 202001,
                claim_count |-> 1],
               [data_source |-> "medicare_lds", encounter_group |-> "outpatient",
                encounter_type |-> "emergency department",
                year_month |-> 202001, claim_count |-> 1] >>
Usual(f) == CsvFrame(f, "UPPER", UsualRows(f))

\* The contents the model gives the file it varies: unreadable, any file of
\* 1 .. MaxRows rows, or the usual file followed by up to MaxExtra rows.
Contents(f) ==
    {Unreadable} \cup
    {CsvFrame(f, style, rows) :
        style \in HeaderStyles,
        rows \in (SeqsUpTo(RowsOf(f), MaxRows) \ {<<>>}) \cup
                 {UsualRows(f) \o x : x \in SeqsUpTo(RowsOf(f), MaxExtra)}}

BlankPage ==
    [ct_pivot |-> NoPivot, ct_table |-> NoTable, ct_chart |-> NoChart,
     sc_pivot |-> NoPivot, sc_table |-> NoTable,
     enc_pivot |-> NoPivot, enc_table |-> NoTable,
     ts_chart |-> NoChart, ts_pivot |-> NoPivot, ts_table |-> NoTable]

NoPair ==
    [file |-> "", source |-> "", left |-> EmptyFrame, right |-> EmptyFrame,
     compared |-> FALSE, left_out |-> BlankPage, right_out |-> BlankPage]

\* One file varies; the other two are the usual ones.
Init ==
    /\ \E f \in FileNames : \E content \in Contents(f) :
          files = [g \in FileNames |-> IF g = f THEN content ELSE Usual(g)]
    /\ cache = [f \in FileNames |-> NotCached]
    /\ pc = "claim_type"
    /\ run = 1
    /\ widget = [ct_source |-> Untouched, ts_source |-> Untouched,
                 ts_type |-> Untouched]
    /\ out = BlankPage
    /\ prev = BlankPage
    /\ messages = {}
    /\ pair = NoPair

\* load_data, lines 45-53: the stored result on a hit; on a miss pd.read_csv,
\* and on its exception st.error and an empty frame.  The result is stored
\* in both cases, the message with it.
load_data(file) ==
    IF cache[file] # NotCached THEN cache[file]
    ELSE IF files[file] = Unreadable
         THEN [cached |-> TRUE, df |-> EmptyFrame, error |-> TRUE]
         ELSE [cached |-> TRUE, df |-> files[file], error |-> FALSE]

\* A store that hands out the stored frame itself (st.cache_resource does):
\* the section's in-place changes land in the store.
CacheStoreShared(c, file, loaded, changed) ==
    [c EXCEPT ![file] = [loaded EXCEPT !.df = changed]]

\* The store after a section ran on the frame load_data returned and changed
\* it in place to `changed`: st.cache_data keeps the returned frame pickled
\* and hands every caller a copy of its own, so the change stays in the copy.
CacheStore(c, file, loaded, changed) == [c EXCEPT ![file] = loaded]

ClaimType ==
    /\ pc = "claim_type"
    /\ LET ld == load_data(ClaimTypeFile)
           res == ClaimTypeSection(ld.df, widget.ct_source)
       IN /\ cache' = CacheStore(cache, ClaimTypeFile, ld, res.df)
          /\ messages' = IF ld.error THEN messages \cup {ClaimTypeFile}
                         ELSE messages
          /\ out' = [out EXCEPT !.ct_pivot = res.pivot, !.ct_table = res.table,
                                !.ct_chart = res.chart]
          /\ pc' = IF res.raised THEN "halted" ELSE "service_category"
    /\ UNCHANGED <<files, run, widget, prev, pair>>

ServiceCategory ==
    /\ pc = "service_category"
    /\ LET ld == load_data(ServiceCategoryFile)
           res == ServiceCategorySection(ld.df)
       IN /\ cache' = CacheStore(cache, ServiceCategoryFile, ld, res.df)
          /\ messages' = IF ld.error THEN messages \cup {ServiceCategoryFile}
                         ELSE messages
          /\ out' = [out EXCEPT !.sc_pivot = res.pivot, !.sc_table = res.table]
          /\ pc' = IF res.raised THEN "halted" ELSE "encounters"
    /\ UNCHANGED <<files, run, widget, prev, pair>>

Encounters ==
    /\ pc = "encounters"
    /\ LET ld == load_data(EncountersFile)
           res == EncountersSection(ld.df)
       IN /\ cache' = CacheStore(cache, EncountersFile, ld, res.df)
          /\ messages' = IF ld.error THEN messages \cup {EncountersFile}
                         ELSE messages
          /\ out' = [out EXCEPT !.enc_pivot = res.pivot,
                                !.enc_table = res.table]
          /\ pc' = IF res.raised THEN "halted" ELSE "encounters_ts"
    /\ UNCHANGED <<files, run, widget, prev, pair>>

\* lines 277-379, and the headers that end the script
EncountersTimeSeries ==
    /\ pc = "encounters_ts"
    /\ LET ld == load_data(EncountersFile)
           res == EncountersTimeSeriesSection(ld.df, widget.ts_source,
                                              widget.ts_type)
       IN /\ cache' = CacheStore(cache, EncountersFile, ld, res.df)
          /\ messages' = IF ld.error THEN messages \cup {EncountersFile}
                         ELSE messages
          /\ out' = [out EXCEPT !.ts_pivot = res.pivot, !.ts_table = res.table,
                                !.ts_chart = res.chart]
          /\ pc' = IF res.raised THEN "halted" ELSE "done"
    /\ UNCHANGED <<files, run, widget, prev, pair>>

\* Streamlit reruns the script from the top; the cache and the widget values
\* outlive the run.
Restart ==
    /\ pc \in {"done", "halted"}
    /\ run < MaxRuns
    /\ run' = run + 1
    /\ pc' = "claim_type"
    /\ prev' = out
    /\ out' = BlankPage
    /\ messages' = {}
    /\ UNCHANGED <<files, cache, pair>>

\* The user picks a data source in the Claim Type radio.
SelectClaimTypeSource ==
    /\ \E v \in Range(out.ct_chart.source_options) :
          widget' = [widget EXCEPT !.ct_source = v]
    /\ Restart

\* The user picks a data source in the time series radio.
SelectEncounterSource ==
    /\ \E v \in Range(out.ts_chart.source_options) :
          widget' = [widget EXCEPT !.ts_source = v]
    /\ Restart

\* The user picks an encounter type in the selectbox.
SelectEncounterType ==
    /\ \E v \in Range(out.ts_chart.type_options) :
          widget' = [widget EXCEPT !.ts_type = v]
    /\ Restart

\* A rerun that changes no widget ("Rerun" in the app's menu).
Rerun ==
    /\ widget' = widget
    /\ Restart

Next ==
    \/ ClaimType
    \/ ServiceCategory
    \/ Encounters
    \/ EncountersTimeSeries
    \/ SelectClaimTypeSource
    \/ SelectEncounterSource
    \/ SelectEncounterType
    \/ Rerun

Spec == Init /\ [][Next]_vars

(***************************************************************************)
(* Two input files side by side.  The two files of a pair have the same    *)
(* rows for one data source, pair.source, and any rows for the others:     *)
(* both start with the same rows (none, or the usual ones), then the same  *)
(* rows of pair.source, and end with rows of other data sources.  An       *)
(* action applies a section to both.                                       *)
(***************************************************************************)
RowsFrom(f, S) == {r \in RowsOf(f) : r.data_source \in S}

InitPair ==
    /\ \E f \in FileNames, a \in DataSources :
       \E base \in {<<>>, UsualRows(f)} :
       \E own \in SeqsUpTo(RowsFrom(f, {a}), PairOwn) \ {<<>>} :
       \E x, y \in SeqsUpTo(RowsFrom(f, DataSources \ {a}), PairOther) :
          /\ x # y
          /\ pair = [file |-> f, source |-> a,
                     left |-> CsvFrame(f, "lower", base \o own \o x),
                     right |-> CsvFrame(f, "lower", base \o own \o y),
                     compared |-> FALSE,
                     left_out |-> BlankPage, right_out |-> BlankPage]
    /\ files = [g \in FileNames |-> Usual(g)]
    /\ cache = [f \in FileNames |-> NotCached]
    /\ pc = "done"
    /\ run = 1
    /\ widget = [ct_source |-> Untouched, ts_source |-> Untouched,
                 ts_type |-> Untouched]
    /\ out = BlankPage
    /\ prev = BlankPage
    /\ messages = {}

\* The page after the Claim Type section ran on a frame.
ClaimTypePage(frame) ==
    LET res == ClaimTypeSection(frame, Untouched)
    IN [BlankPage EXCEPT !.ct_pivot = res.pivot, !.ct_table = res.table,
                         !.ct_chart = res.chart]

ServiceCategoryPage(frame) ==
    LET res == ServiceCategorySection(frame)
    IN [BlankPage EXCEPT !.sc_pivot = res.pivot, !.sc_table = res.table]

\* The page after both encounters sections ran on a frame; the second one
\* does not run when the first one raised.
EncountersPage(frame) ==
    LET res == EncountersSection(frame)
        ts == EncountersTimeSeriesSection(frame, Untouched, Untouched)
    IN IF res.raised
       THEN [BlankPage EXCEPT !.enc_pivot = res.pivot, !.enc_table = res.table]
       ELSE [BlankPage EXCEPT !.enc_pivot = res.pivot, !.enc_table = res.table,
                              !.ts_pivot = ts.pivot, !.ts_table = ts.table,
                              !.ts_chart = ts.chart]

CompareClaimType ==
    /\ pair.file = ClaimTypeFile
    /\ ~ pair.compared
    /\ pair' = [pair EXCEPT !.compared = TRUE,
                            !.left_out = ClaimTypePage(pair.left),
                            !.right_out = ClaimTypePage(pair.right)]
    /\ UNCHANGED <<files, cache, pc, run, widget, out, prev, messages>>

CompareServiceCategory ==
    /\ pair.file = ServiceCategoryFile
    /\ ~ pair.compared
    /\ pair' = [pair EXCEPT !.compared = TRUE,
                            !.left_out = ServiceCategoryPage(pair.left),
                            !.right_out = ServiceCategoryPage(pair.right)]
    /\ UNCHANGED <<files, cache, pc, run, widget, out, prev, messages>>

CompareEncounters ==
    /\ pair.file = EncountersFile
    /\ ~ pair.compared
    /\ pair' = [pair EXCEPT !.compared = TRUE,
                            !.left_out = EncountersPage(pair.left),
                            !.right_out = EncountersPage(pair.right)]
    /\ UNCHANGED <<files, cache, pc, run, widget, out, prev, messages>>

NextPair ==
    \/ CompareClaimType
    \/ CompareServiceCategory
    \/ CompareEncounters

SpecPair == InitPair /\ [][NextPair]_vars

(***************************************************************************)
(* The views, for the properties below.                                    *)
(***************************************************************************)
Views == {"claim_type", "service_category", "encounters", "encounters_ts"}

FileOf(v) ==
    CASE v = "claim_type" -> ClaimTypeFile
      [] v = "service_category" -> ServiceCategoryFile
      [] OTHER -> EncountersFile

TableOf(page, v) ==
    CASE v = "claim_type" -> page.ct_table
      [] v = "service_category" -> page.sc_table
      [] v = "encounters" -> page.enc_table
      [] OTHER -> page.ts_table

PivotOf(page, v) ==
    CASE v = "claim_type" -> page.ct_pivot
      [] v = "service_category" -> page.sc_pivot
      [] v = "encounters" -> page.enc_pivot
      [] OTHER -> page.ts_pivot

\* The rows of the view's file as they are on disk.
InputRows(v) ==
    IF files[FileOf(v)] = Unreadable THEN <<>> ELSE files[FileOf(v)].rows

\* The category of an input row in view v, as the file spells it.
CategoryOf(v, r) ==
    CASE v = "claim_type" -> r.claim_type
      [] v = "service_category" -> r.service_category_1
      [] OTHER -> <<r.encounter_group, r.encounter_type>>

\* The labels the renaming maps of view v name.
NamedCategories(v) ==
    CASE v = "claim_type" -> {"professional", "institutional"}
      [] v = "service_category" ->
            {"inpatient", "outpatient", "office-based", "ancillary", "other"}
      [] OTHER -> {}

InputSources(v) == {InputRows(v)[i].data_source : i \in DOMAIN InputRows(v)}
InputCategories(v) ==
    {CategoryOf(v, InputRows(v)[i]) : i \in DOMAIN InputRows(v)}
RowsAt(v, s, c) ==
    SelectSeq(InputRows(v),
              LAMBDA r : r.data_source = s /\ CategoryOf(v, r) = c)
\* The sum of the raw claim_count of the rows of data source s.
InputTotal(v, s) ==
    SumCount(SelectSeq(InputRows(v), LAMBDA r : r.data_source = s))

\* The sum of the entries of data source s over the categories of a table
\* or pivot (the Total entry is kept apart from them).
EntrySum(t, s) ==
    SumSkipNa([i \in DOMAIN SetToSeq(t.categories) |->
                  t.cell[<<s, SetToSeq(t.categories)[i]>>]])
HasNaN(t, s) == \E c \in t.categories : ~ IsFinite(t.cell[<<s, c>>])

(***************************************************************************)
(* C1.  In every view, for each data source whose total count is not zero, *)
(* the percentages of its categories (Total excluded) sum to 100.          *)
(***************************************************************************)
C1_PercentagesSumTo100 ==
    \A v \in Views :
        TableOf(out, v).status = "rendered" =>
            \A s \in InputSources(v) :
                InputTotal(v, s) # 0 =>
                    /\ s \in TableOf(out, v).sources
                    /\ ~ HasNaN(TableOf(out, v), s)
                    /\ EntrySum(TableOf(out, v), s) = Hundred

(***************************************************************************)
(* C2.  In each pivoted table, the cells of a data source, before they are *)
(* normalized, sum to the raw claim_count of that data source's input      *)
(* rows; this includes the second encounters pivot.                        *)
(***************************************************************************)
C2_PivotConservesCounts ==
    \A v \in Views :
        PivotOf(out, v).computed =>
            \A s \in PivotOf(out, v).sources :
                EntrySum(PivotOf(out, v), s) = Frac(InputTotal(v, s), 1)

(***************************************************************************)
(* C3.  When the file of a view cannot be loaded, load_data reports a      *)
(* message and returns an empty table, the view renders an empty table and *)
(* the run goes on to the later views: it does not end with an error.      *)
(***************************************************************************)
C3_LoadFailureDegrades ==
    \A v \in Views :
        (files[FileOf(v)] = Unreadable /\ TableOf(out, v).status # "none") =>
            /\ FileOf(v) \in messages
            /\ TableOf(out, v).status = "rendered"
            /\ TableOf(out, v).sources = {}
            /\ pc # "halted"

(***************************************************************************)
(* C4.  A data source whose total count is 0 is shown 0% for every         *)
(* category, in every view: never NaN, never an infinite value.            *)
(***************************************************************************)
C4_ZeroTotalYieldsZero ==
    \A v \in Views :
        TableOf(out, v).status = "rendered" =>
            \A s \in InputSources(v) :
                InputTotal(v, s) = 0 =>
                    \A c \in TableOf(out, v).categories :
                        TableOf(out, v).cell[<<s, c>>] = Zero

(***************************************************************************)
(* C5.  A data_source label or a dimension label that the renaming maps do *)
(* not name is passed through: the table shows it under its own label,     *)
(* with its own percentages.                                               *)
(***************************************************************************)
C5_UnnamedLabelsPassThrough ==
    \A v \in Views :
        TableOf(out, v).status = "rendered" =>
            /\ \A s \in InputSources(v) \ RecognizedSources :
                  /\ s \in TableOf(out, v).sources
                  /\ TableOf(out, v).label[s] = s
                  /\ InputTotal(v, s) # 0 =>
                        EntrySum(TableOf(out, v), s) = Hundred
            /\ \A c \in InputCategories(v) \ NamedCategories(v) :
                  c \in TableOf(out, v).categories

(***************************************************************************)
(* C6.  In every pivoted table every data source and every category of the *)
(* input appears, and a (data source, category) pair without an input row  *)
(* has the value 0, not a missing value.                                   *)
(***************************************************************************)
C6_PivotFillsZero ==
    \A v \in Views :
        PivotOf(out, v).computed =>
            /\ PivotOf(out, v).sources = InputSources(v)
            /\ PivotOf(out, v).categories = InputCategories(v)
            /\ DOMAIN PivotOf(out, v).cell =
                  InputSources(v) \X InputCategories(v)
            /\ \A s \in InputSources(v) : \A c \in InputCategories(v) :
                  RowsAt(v, s, c) = <<>> =>
                      PivotOf(out, v).cell[<<s, c>>] = Zero

\* A pivot in which a data source lacks a category that another one has.
C6_Witness ==
    \E v \in {"service_category", "encounters_ts"} :
        /\ PivotOf(out, v).computed
        /\ \E s \in InputSources(v) : \E c \in InputCategories(v) :
              /\ RowsAt(v, s, c) = <<>>
              /\ PivotOf(out, v).cell[<<s, c>>] = Zero

(***************************************************************************)
(* C8.  The rows fed to a time-series chart are exactly the rows matching  *)
(* the selection, in ascending order of period.                            *)
(***************************************************************************)
Ascending(feed) ==
    \A i, j \in DOMAIN feed :
        i < j => feed[i].year_month <= feed[j].year_month

\* The input rows the Claim Type chart's selection matches.
ClaimTypeMatches(ch) ==
    SelectSeq(InputRows("claim_type"),
              LAMBDA r : SourceNames(r.data_source) = ch.source)

\* The input rows the encounter chart's selection matches.
EncounterMatches(ch) ==
    SelectSeq(InputRows("encounters_ts"),
              LAMBDA r : r.data_source = ch.source /\ r.encounter_type = ch.type)

C8_ChartFeedSortedByPeriod ==
    /\ out.ct_chart.status = "rendered" =>
          /\ \A i \in DOMAIN out.ct_chart.feed :
                out.ct_chart.feed[i].data_source = out.ct_chart.source
          /\ Len(out.ct_chart.feed) = Len(ClaimTypeMatches(out.ct_chart))
          /\ Ascending(out.ct_chart.feed)
    /\ out.ts_chart.status = "rendered" =>
          /\ \A i \in DOMAIN out.ts_chart.feed :
                /\ out.ts_chart.feed[i].data_source = out.ts_chart.source
                /\ out.ts_chart.feed[i].encounter_type = out.ts_chart.type
          /\ \A r \in Range(EncounterMatches(out.ts_chart)) :
                \E i \in DOMAIN out.ts_chart.feed :
                    /\ out.ts_chart.feed[i].encounter_group = r.encounter_group
                    /\ out.ts_chart.feed[i].year_month = ToDatetime(r.year_month)
          /\ Ascending(out.ts_chart.feed)

C10_TablesSameOnEveryRun ==
    run > 1 =>
        \A v \in Views :
            TableOf(out, v).status # "none" =>
                /\ TableOf(out, v) = TableOf(prev, v)
                /\ PivotOf(out, v) = PivotOf(prev, v)

\* A second run, after the user picked another data source in the Claim Type
\* radio, that rendered every table.
C10_Witness ==
    /\ run = 2
    /\ pc = "done"
    /\ out.ct_chart.source # prev.ct_chart.source
    /\ \A v \in Views : TableOf(out, v).status = "rendered"

(***************************************************************************)
(* C7.  Each data source is normalized by its own total only: two input    *)
(* tables with the same rows for data source A, which differ in the rows   *)
(* of other data sources, show the same percentages for A in every view.   *)
(* A category that one of the two tables lacks is one A has no row for;    *)
(* where it is shown, A's entry is 0 (NaN when A's total is 0).            *)
(***************************************************************************)
SameFor(a, lt, rt) ==
    (lt.status = "rendered" /\ rt.status = "rendered") =>
        /\ a \in lt.sources /\ a \in rt.sources
        /\ lt.label[a] = rt.label[a]
        /\ lt.total[a] = rt.total[a]
        /\ \A c \in lt.categories \cap rt.categories :
              lt.cell[<<a, c>>] = rt.cell[<<a, c>>]
        /\ \A c \in lt.categories \ rt.categories :
              lt.cell[<<a, c>>] \in {Zero, NaN}
        /\ \A c \in rt.categories \ lt.categories :
              rt.cell[<<a, c>>] \in {Zero, NaN}

C7_OwnTotalOnly ==
    pair.compared =>
        \A v \in Views :
            SameFor(pair.source, TableOf(pair.left_out, v),
                    TableOf(pair.right_out, v))

\* Two service category tables, both rendered, in which the other data
\* sources have different totals and A has a percentage that is neither 0
\* nor 100.
C7_Witness ==
    /\ pair.compared
    /\ pair.file = ServiceCategoryFile
    /\ pair.left_out.sc_table.status = "rendered"
    /\ pair.right_out.sc_table.status = "rendered"
    /\ SumCount(pair.left.rows) # SumCount(pair.right.rows)
    /\ \E c \in pair.left_out.sc_table.categories :
          pair.left_out.sc_table.cell[<<pair.source, c>>] = Frac(50, 1)

====
